---------------------------- MODULE Spec2Model ----------------------------
(***************************************************************************)
(* Verification model of the two DATEV PDF-to-CSV converters:             *)
(*   pdf-to-csv_DATEV_Entwicklungsuebersicht.py  (Pipeline A, page text)  *)
(*   pdf-to-csv_DATEV_SUSA.py                    (Pipeline B, glyphs)     *)
(*                                                                         *)
(* Text model.  A page text is a sequence of lines; a line is a sequence  *)
(* of lexemes, the maximal pieces the regular expressions of the source   *)
(* cut a line into: a month token (MONTHS_RE), a localized decimal token  *)
(* (DE_NUMBER_RE) or a piece of other text.  A month token keeps the      *)
(* characters between the month name and the year, because                *)
(* normalize_month_token rewrites exactly those.  Pipeline B works on     *)
(* glyphs and on column texts, which are sequences of characters.         *)
(***************************************************************************)
EXTENDS Integers, Sequences, FiniteSets, TLC

\* ------------------------------------------------------------------------
\* Optional values (Python's None)
\* ------------------------------------------------------------------------
None == [some |-> FALSE, v |-> <<>>]
Some(x) == [some |-> TRUE, v |-> x]

\* ------------------------------------------------------------------------
\* Lexemes
\* ------------------------------------------------------------------------
Word(s) == [k |-> "word", s |-> s, sep |-> <<>>, yr |-> ""]
Num(s) == [k |-> "num", s |-> s, sep |-> <<>>, yr |-> ""]
Month(m, sep, yr) == [k |-> "month", s |-> m, sep |-> sep, yr |-> yr]

\* Sequence helpers
RECURSIVE Concat(_)
Concat(ss) == IF ss = <<>> THEN <<>> ELSE Head(ss) \o Concat(Tail(ss))

LastN(s, n) == IF Len(s) <= n THEN s ELSE SubSeq(s, Len(s) - n + 1, Len(s))

Range(s) == {s[i] : i \in DOMAIN s}

\* ------------------------------------------------------------------------
\* Program constants
\* ------------------------------------------------------------------------
\* the 13 month columns of detect_month_header
MonthColumns == 13

IsSpace(c) == c \in {" ", "\t"}
IsSeparator(c) == c \in {"/", ".", "-"}

\* " ".join(token.split()): every run of white space becomes one blank
RECURSIVE CollapseSpaces(_)
CollapseSpaces(cs) ==
    IF cs = <<>> THEN <<>>
    ELSE IF IsSpace(Head(cs))
         THEN IF Tail(cs) # <<>> /\ IsSpace(Head(Tail(cs)))
              THEN CollapseSpaces(Tail(cs))
              ELSE <<" ">> \o CollapseSpaces(Tail(cs))
         ELSE <<Head(cs)>> \o CollapseSpaces(Tail(cs))

\* SEPARATOR_CLEAN_RE.sub(r"\1", token): white space around / . - is removed
TightenSeparators(cs) ==
    LET keep(i) == \/ ~IsSpace(cs[i])
                   \/ ~ \/ (i < Len(cs) /\ IsSeparator(cs[i + 1]))
                        \/ (i > 1 /\ IsSeparator(cs[i - 1]))
        kept == SelectSeq([i \in 1..Len(cs) |-> <<keep(i), cs[i]>>],
                          LAMBDA x : x[1])
    IN [i \in 1..Len(kept) |-> kept[i][2]]

normalize_month_token(token) ==
    [token EXCEPT !.sep = TightenSeparators(CollapseSpaces(token.sep))]

\* MONTHS_RE.finditer over a piece of text given as lexemes
MonthMatches(lexemes) == SelectSeq(lexemes, LAMBDA x : x.k = "month")

\* the loop of extract_month_tokens: ordered, after the months still to come
RECURSIVE OrderedMonths(_, _)
OrderedMonths(ordered, months) ==
    IF months = <<>> THEN ordered
    ELSE LET normalized == normalize_month_token(Head(months))
         IN OrderedMonths(IF normalized \in Range(ordered)
                          THEN ordered ELSE Append(ordered, normalized),
                          Tail(months))

extract_month_tokens(lexemes) == OrderedMonths(<<>>, MonthMatches(lexemes))

HasAnchor(line) == \E i \in DOMAIN line : line[i] = Word("Bezeichnung")

detect_month_header_first13(text) ==
    LET ordered == extract_month_tokens(Concat(text))
    IN IF Len(ordered) >= MonthColumns
       THEN Some(SubSeq(ordered, 1, MonthColumns)) ELSE None

detect_month_header(text) ==
    LET hits == {i \in DOMAIN text :
                    /\ HasAnchor(text[i])
                    /\ Len(extract_month_tokens(text[i])) >= MonthColumns}
    IN IF hits # {}
       THEN LET i == CHOOSE j \in hits : \A k \in hits : j <= k
            IN Some(LastN(extract_month_tokens(text[i]), MonthColumns))
       ELSE LET ordered == extract_month_tokens(Concat(text))
            IN IF Len(ordered) >= MonthColumns
               THEN Some(LastN(ordered, MonthColumns))
               ELSE None


\* ------------------------------------------------------------------------
\* Rows of Pipeline A.  A row is (label, values); a text is a sequence of
\* lexemes, the empty text is <<>>; a value is a decimal token's text or "".
\* ------------------------------------------------------------------------
Label(s) == <<Word(s)>>
Row(label, values) == [label |-> label, values |-> values]
Blanks(n) == [i \in 1..n |-> ""]

SENTINEL == Label("Kostenarten:")

SECTION_BREAK_AFTER ==
    {Label(s) : s \in {"Aktivierte Eigenleistungen", "Gesamtleistung",
        "Material-/Wareneinkauf", "Rohertrag", "So. betr. Erlöse",
        "Betrieblicher Rohertrag", "Gesamtkosten", "Betriebsergebnis",
        "Neutraler Aufwand", "Neutraler Ertrag", "Kontenklasse unbesetzt",
        "Ergebnis vor Steuern", "Steuern Einkommen u. Ertrag",
        "Vorläufiges Ergebnis"}}

COST_LABELS ==
    {Label(s) : s \in {"Personalkosten", "Raumkosten", "Betriebliche Steuern",
        "Versicherungen/Beiträge", "Besondere Kosten",
        "Fahrzeugkosten (ohne Steuer)", "Werbe-/Reisekosten",
        "Kosten Warenabgabe", "Abschreibungen", "Reparatur/Instandhaltung",
        "Sonstige Kosten", "Gesamtkosten"}}

\* DE_NUMBER_RE.findall(line)
NumberMatches(line) ==
    LET nums == SelectSeq(line, LAMBDA x : x.k = "num")
    IN [i \in 1..Len(nums) |-> nums[i].s]

\* the text of a lexeme, as far as str.find looks into it
LexemeHas(lexeme, t) == lexeme.k # "month" /\ lexeme.s = t

\* line.find(t): the first lexeme holding t (0: not found)
Find(line, t) ==
    LET hits == {i \in DOMAIN line : LexemeHas(line[i], t)}
    IN IF hits = {} THEN 0 ELSE CHOOSE i \in hits : \A j \in hits : i <= j

\* nums[-n:]
Slice_last(nums, n) == IF n = 0 THEN nums ELSE LastN(nums, n)

parse_line_all_tokens(line, n) ==
    IF line = <<>> THEN <<>>
    ELSE IF line = SENTINEL THEN <<Row(line, Blanks(n))>>
    ELSE LET nums == NumberMatches(line)
         IN IF Len(nums) >= n
            THEN <<Row(SubSeq(line, 1, Find(line, nums[1]) - 1), nums)>>
            ELSE <<>>

\* one iteration of the loop of parse_rows_from_text: the rows a line adds
parse_line(line, n) ==
    IF line = <<>> THEN <<>>
    ELSE IF line = SENTINEL THEN <<Row(line, Blanks(n))>>
    ELSE LET nums == NumberMatches(line)
         IN IF Len(nums) >= n
            THEN LET values == Slice_last(nums, n)
                     pos == Find(line, values[1])
                 IN <<Row(SubSeq(line, 1, pos - 1), values)>>
            ELSE <<>>

parse_rows_from_text(text, months) ==
    Concat([i \in 1..Len(text) |-> parse_line(text[i], Len(months))])

ensure_kostenarten_always(rows, months) ==
    LET cost == {i \in DOMAIN rows : rows[i].label \in COST_LABELS}
    IN IF cost = {} THEN rows
       ELSE LET first_cost_idx == CHOOSE i \in cost : \A j \in cost : i <= j
            IN SubSeq(rows, 1, first_cost_idx - 1)
               \o <<Row(SENTINEL, Blanks(Len(months)))>>
               \o SubSeq(rows, first_cost_idx, Len(rows))

ensure_kostenarten(rows, months) ==
    IF \E i \in DOMAIN rows : rows[i].label = SENTINEL THEN rows
    ELSE LET cost == {i \in DOMAIN rows : rows[i].label \in COST_LABELS}
         IN IF cost = {} THEN rows
            ELSE LET first_cost_idx ==
                         CHOOSE i \in cost : \A j \in cost : i <= j
                 IN SubSeq(rows, 1, first_cost_idx - 1)
                    \o <<Row(SENTINEL, Blanks(Len(months)))>>
                    \o SubSeq(rows, first_cost_idx, Len(rows))

\* the seen/uniq_rows loop of convert_page_to_csv
RECURSIVE UniqueInto(_, _)
UniqueInto(uniq, rest) ==
    IF rest = <<>> THEN uniq
    ELSE UniqueInto(IF Head(rest) \in Range(uniq)
                    THEN uniq ELSE Append(uniq, Head(rest)),
                    Tail(rest))

unique_rows(rows) == UniqueInto(<<>>, rows)

insert_section_breaks_no_trailing(rows, months_count) ==
    <<Row(<<>>, Blanks(months_count))>>
    \o Concat([i \in 1..Len(rows) |->
                  IF rows[i].label \in SECTION_BREAK_AFTER
                  THEN <<rows[i], Row(<<>>, Blanks(months_count))>>
                  ELSE <<rows[i]>>])

insert_section_breaks_none(rows, months_count) ==
    <<Row(<<>>, Blanks(months_count))>> \o rows
    \o <<Row(<<>>, Blanks(months_count))>>

insert_section_breaks(rows, months_count) ==
    <<Row(<<>>, Blanks(months_count))>>
    \o Concat([i \in 1..Len(rows) |->
                  IF rows[i].label \in SECTION_BREAK_AFTER
                  THEN <<rows[i], Row(<<>>, Blanks(months_count))>>
                  ELSE <<rows[i]>>])
    \o <<Row(<<>>, Blanks(months_count))>>

is_blank(row) ==
    row.label = <<>> /\ \A i \in DOMAIN row.values : row.values[i] = ""

compress_blank_rows_keep(rows) == rows

\* the loop of compress_blank_rows: cleaned and prev_blank, then the rest
RECURSIVE CompressInto(_, _, _)
CompressInto(cleaned, prev_blank, rest) ==
    IF rest = <<>> THEN cleaned
    ELSE IF is_blank(Head(rest)) /\ prev_blank
         THEN CompressInto(cleaned, prev_blank, Tail(rest))
         ELSE CompressInto(Append(cleaned, Head(rest)), is_blank(Head(rest)),
                           Tail(rest))

compress_blank_rows(rows) == CompressInto(<<>>, FALSE, rows)

\* Exceptions
Raise(type, what, requested, actual) ==
    [type |-> type, what |-> what, requested |-> requested, actual |-> actual]

Returned(columns, rows) ==
    [exc |-> None, columns |-> columns, rows |-> rows]
Raised(e) == [exc |-> Some(e), columns |-> <<>>, rows |-> <<>>]

build_output_table_unchecked(header, final_rows, structure_numbers) ==
    Returned(<<Label("Bezeichnung")>> \o header,
             [i \in 1..Len(final_rows) |->
                <<final_rows[i].label>> \o final_rows[i].values])

build_output_table(header, final_rows, structure_numbers) ==
    IF structure_numbers.some /\ Len(structure_numbers.v) # Len(final_rows)
    THEN Raised(Raise("RuntimeError", "StructuralMismatch",
                      Len(structure_numbers.v), Len(final_rows)))
    ELSE Returned(<<Label("Bezeichnung")>> \o header,
             [i \in 1..Len(final_rows) |->
                LET r == final_rows[i]
                IN IF r.label = <<>> /\ r.values # <<>>
                      /\ \A j \in DOMAIN r.values : r.values[j] = ""
                   THEN <<<<>>>> \o Blanks(Len(header))
                   ELSE <<r.label>> \o r.values])

\* ------------------------------------------------------------------------
\* State
\* ------------------------------------------------------------------------
VARIABLES
    script,             \* which converter runs: "EU" (Pipeline A) or "SUSA"
    pc,                 \* position of the running function
    n_pdfs,             \* len(pdf_paths) of convert_batch
    index,              \* number of pdf_paths the loop has taken
    existed,            \* indices skipped because the outputs existed
    written,            \* convert_batch: written (indices)
    skipped,            \* convert_batch: skipped (index, reason)
    page_number,        \* --page
    start_page,         \* --start-page
    end_page,           \* --end-page
    structure_numbers,  \* load_structure_numbers(...) or None
    write_excel_file,   \* not --no-excel
    pandas,             \* whether "import pandas" succeeds
    pdf,                \* the open document: its pages
    page_text,          \* convert_page_to_csv: page_text
    header,             \* convert_page_to_csv: header
    rows,               \* convert_page_to_csv: rows (parsed, then ensured)
    uniq_rows,          \* convert_page_to_csv: uniq_rows
    final_rows,         \* convert_page_to_csv: final_rows
    table,              \* convert_page_to_csv: columns, rows
    susa_rows,          \* parse_pdf: rows
    exc,                \* the exception in flight, or None
    files               \* output files written so far: (index, kind)

batch_vars == <<n_pdfs, index, existed, written, skipped>>
arg_vars == <<script, page_number, start_page, end_page, structure_numbers,
              write_excel_file, pandas>>
eu_vars == <<page_text, header, rows, uniq_rows, final_rows, table>>
vars == <<pc, batch_vars, arg_vars, pdf, eu_vars, susa_rows, exc, files>>

NoTable == Returned(<<>>, <<>>)

\* the locals of one conversion before it starts
FreshLocals ==
    /\ page_text = <<>>
    /\ header = None
    /\ rows = <<>>
    /\ uniq_rows = <<>>
    /\ final_rows = <<>>
    /\ table = NoTable
    /\ susa_rows = <<>>
    /\ exc = None

\* ------------------------------------------------------------------------
\* convert_page_to_csv, statement by statement
\* ------------------------------------------------------------------------
\* str.casefold on the words of the model's vocabulary
Casefold(s) ==
    CASE s = "Entwicklungsübersicht" -> "entwicklungsübersicht"
      [] s = "ENTWICKLUNGSUEBERSICHT" -> "entwicklungsuebersicht"
      [] s = "BWA" -> "bwa"
      [] s = "Summen und Salden" -> "summen und salden"
      [] s = "SUMMEN- UND SALDENLISTE" -> "summen- und saldenliste"
      [] OTHER -> s

ENTWICKLUNGSUEBERSICHT_TERMS ==
    {"entwicklungsübersicht", "entwicklungsuebersicht"}

PageHasTerm(text) ==
    \E i \in DOMAIN text : \E j \in DOMAIN text[i] :
        /\ text[i][j].k = "word"
        /\ Casefold(text[i][j].s) \in ENTWICKLUNGSUEBERSICHT_TERMS

\* (index, page_text) of the first page holding a term, or (None, "")
find_entwicklungsuebersicht_page(doc) ==
    LET hits == {i \in DOMAIN doc : PageHasTerm(doc[i].text)}
    IN IF hits = {} THEN [index |-> None, page_text |-> <<>>]
       ELSE LET i == CHOOSE j \in hits : \A k \in hits : j <= k
            IN [index |-> Some(i), page_text |-> doc[i].text]

Fail(e) == /\ exc' = Some(e)
           /\ pc' = "raised"

SelectPageClamped ==
    /\ pc = "select_page"
    /\ LET found == find_entwicklungsuebersicht_page(pdf)
           asked == IF page_number.some THEN page_number.v
                    ELSE IF found.index.some THEN found.index.v ELSE 1
           taken == IF asked < 1 THEN 1
                    ELSE IF asked > Len(pdf) THEN Len(pdf) ELSE asked
       IN page_text' = pdf[taken].text
    /\ pc' = "detect"
    /\ UNCHANGED <<batch_vars, arg_vars, pdf, header, rows, uniq_rows,
                   final_rows, table, susa_rows, exc, files>>

\* lines 215-225: the page is searched for, or taken as asked
SelectPage ==
    /\ pc = "select_page"
    /\ IF ~page_number.some
       THEN LET found == find_entwicklungsuebersicht_page(pdf)
            IN IF ~found.index.some
               THEN /\ Fail(Raise("RuntimeError", "NotFound", 0, Len(pdf)))
                    /\ UNCHANGED page_text
               ELSE /\ page_text' = found.page_text
                    /\ pc' = "detect"
                    /\ UNCHANGED exc
       ELSE IF page_number.v < 1
            THEN /\ Fail(Raise("ValueError", "OutOfRange", page_number.v, 1))
                 /\ UNCHANGED page_text
            ELSE IF page_number.v > Len(pdf)
                 THEN /\ Fail(Raise("ValueError", "OutOfRange",
                                    page_number.v, Len(pdf)))
                      /\ UNCHANGED page_text
                 ELSE /\ page_text' = pdf[page_number.v].text
                      /\ pc' = "detect"
                      /\ UNCHANGED exc
    /\ UNCHANGED <<batch_vars, arg_vars, pdf, header, rows, uniq_rows,
                   final_rows, table, susa_rows, files>>

\* lines 227-229
DetectHeader ==
    /\ pc = "detect"
    /\ header' = detect_month_header(page_text)
    /\ IF ~header'.some \/ header'.v = <<>>
       THEN Fail(Raise("RuntimeError", "NotFound", MonthColumns, 0))
       ELSE pc' = "parse" /\ UNCHANGED exc
    /\ UNCHANGED <<batch_vars, arg_vars, pdf, page_text, rows, uniq_rows,
                   final_rows, table, susa_rows, files>>

\* line 231
ParseRows ==
    /\ pc = "parse"
    /\ rows' = parse_rows_from_text(page_text, header.v)
    /\ pc' = "ensure"
    /\ UNCHANGED <<batch_vars, arg_vars, pdf, page_text, header, uniq_rows,
                   final_rows, table, susa_rows, exc, files>>

\* line 232
EnsureKostenarten ==
    /\ pc = "ensure"
    /\ rows' = ensure_kostenarten(rows, header.v)
    /\ pc' = "dedup"
    /\ UNCHANGED <<batch_vars, arg_vars, pdf, page_text, header, uniq_rows,
                   final_rows, table, susa_rows, exc, files>>

\* lines 234-240
Deduplicate ==
    /\ pc = "dedup"
    /\ uniq_rows' = unique_rows(rows)
    /\ pc' = "annotate"
    /\ UNCHANGED <<batch_vars, arg_vars, pdf, page_text, header, rows,
                   final_rows, table, susa_rows, exc, files>>

\* line 242
Annotate ==
    /\ pc = "annotate"
    /\ final_rows' =
           compress_blank_rows(insert_section_breaks(uniq_rows, Len(header.v)))
    /\ pc' = "build"
    /\ UNCHANGED <<batch_vars, arg_vars, pdf, page_text, header, rows,
                   uniq_rows, table, susa_rows, exc, files>>

\* line 243
BuildTable ==
    /\ pc = "build"
    /\ LET t == build_output_table(header.v, final_rows, structure_numbers)
       IN IF t.exc.some
          THEN Fail(t.exc.v) /\ UNCHANGED table
          ELSE table' = t /\ pc' = "write_csv" /\ UNCHANGED exc
    /\ UNCHANGED <<batch_vars, arg_vars, pdf, page_text, header, rows,
                   uniq_rows, final_rows, susa_rows, files>>

\* ------------------------------------------------------------------------
\* Bounds and input families
\* ------------------------------------------------------------------------
\* month tokens a header line may carry beyond the 13 columns
MaxExtra == 1
\* the first month of a header line is one of the first MaxFirst months
MaxFirst == 2
\* lines of a page of the header family
MaxHeaderLines == 2
\* data lines of a page of the row family
MaxLines == 3
\* entries of the structure reference
StructureRows == 5

MonthNames == <<"Jan", "Feb", "März", "Apr", "Mai", "Jun",
                "Jul", "Aug", "Sep", "Okt", "Nov", "Dez">>

\* the i-th month of the calendar that starts in Jan/24, written in a style
MonthToken(i, style) ==
    Month(MonthNames[((i - 1) % 12) + 1],
          CASE style = 1 -> <<"/">>
            [] style = 2 -> IF i % 2 = 0 THEN <<" ", "/", " ">> ELSE <<"/">>
            [] OTHER -> IF i % 2 = 0 THEN <<"/", " ">> ELSE <<"/">>,
          IF i <= 12 THEN "24" ELSE IF i <= 24 THEN "25" ELSE "26")

\* a header line: count consecutive months from first on; style 2 repeats
\* the first month at the end in another spacing, style 3 repeats it with a
\* blank instead of the slash (another token under normalization)
HeaderLine(anchor, first, count, style) ==
    (IF anchor THEN <<Word("Bezeichnung")>> ELSE <<Word("BWA")>>)
    \o [i \in 1..count |-> MonthToken(first + i - 1, style)]
    \o (CASE style = 1 -> <<>>
          [] style = 2 ->
               <<Month(MonthNames[((first - 1) % 12) + 1], <<" ", "/">>, "24")>>
          [] OTHER ->
               <<Month(MonthNames[((first - 1) % 12) + 1], <<" ", " ">>, "24")>>)

HeaderCounts ==
    {1} \cup ((MonthColumns - 1)..(MonthColumns + MaxExtra))

HeaderLines ==
    {HeaderLine(a, f, c, st) :
        a \in BOOLEAN, f \in 1..MaxFirst, c \in HeaderCounts, st \in 1..3}

SeqsUpTo(S, n) == UNION {[1..m -> S] : m \in 0..n}

HeaderPages == SeqsUpTo(HeaderLines, MaxHeaderLines) \ {<<>>}

\* a data line: label text, then count decimal tokens in a pattern
NumText(i, pattern) ==
    IF pattern = 1 THEN "1,00"
    ELSE IF i % 2 = 1 THEN "0,00" ELSE "-2.345,67"

DataLine(label, pattern, count) ==
    (IF label = "" THEN <<>> ELSE <<Word(label)>>)
    \o [i \in 1..count |-> Num(NumText(i, pattern))]

DataLabels == {"", "Umsatzerlöse", "Personalkosten", "Gesamtkosten",
               "Rohertrag", "Kostenarten:"}

DataLines ==
    {DataLine(l, 1, MonthColumns) : l \in DataLabels}
    \cup {DataLine(l, 2, MonthColumns) : l \in {"Rohertrag", "Personalkosten"}}
    \cup {DataLine("Rohertrag", 1, MonthColumns - 1)}
    \cup {DataLine("Personalkosten", p, MonthColumns + e) :
             p \in 1..2, e \in 1..MaxExtra}
    \cup {<<>>, SENTINEL}

StandardHeaderLine == HeaderLine(TRUE, 1, MonthColumns, 1)

RowPages ==
    {<<StandardHeaderLine>> \o body : body \in SeqsUpTo(DataLines, MaxLines)}

Structures ==
    {None, Some([i \in 1..StructureRows |-> "1000"])}

\* ------------------------------------------------------------------------
\* Specifications of the pure steps of Pipeline A
\* ------------------------------------------------------------------------
IdleBatch ==
    /\ n_pdfs = 0
    /\ index = 0
    /\ existed = {}
    /\ written = <<>>
    /\ skipped = <<>>
    /\ files = {}

IdleArgs ==
    /\ page_number = None
    /\ start_page = None
    /\ end_page = None
    /\ write_excel_file = FALSE
    /\ pandas = TRUE

\* detect_month_header on every page of the header family
InitHeader ==
    /\ script = "EU"
    /\ pc = "detect"
    /\ IdleBatch
    /\ IdleArgs
    /\ structure_numbers = None
    /\ pdf = <<>>
    /\ page_text \in HeaderPages
    /\ header = None
    /\ rows = <<>>
    /\ uniq_rows = <<>>
    /\ final_rows = <<>>
    /\ table = NoTable
    /\ susa_rows = <<>>
    /\ exc = None

NextHeader == DetectHeader

SpecHeader == InitHeader /\ [][NextHeader]_vars

\* parse_rows_from_text ... build_output_table on every page of the row family
InitRows ==
    /\ script = "EU"
    /\ pc = "parse"
    /\ IdleBatch
    /\ IdleArgs
    /\ structure_numbers \in Structures
    /\ pdf = <<>>
    /\ page_text \in RowPages
    /\ header = detect_month_header(page_text)
    /\ rows = <<>>
    /\ uniq_rows = <<>>
    /\ final_rows = <<>>
    /\ table = NoTable
    /\ susa_rows = <<>>
    /\ exc = None

NextRows ==
    \/ ParseRows
    \/ EnsureKostenarten
    \/ Deduplicate
    \/ Annotate
    \/ BuildTable

SpecRows == InitRows /\ [][NextRows]_vars

\* ------------------------------------------------------------------------
\* Properties of Pipeline A
\* ------------------------------------------------------------------------
Count(s, P(_)) == Cardinality({i \in DOMAIN s : P(s[i])})

\* the rows parse_rows_from_text hands to ensure_kostenarten
ParsedRows == parse_rows_from_text(page_text, header.v)

AllWide(rs, n) == \A i \in DOMAIN rs : Len(rs[i].values) = n

\* C1: header-width invariant.  With a detected header of N month tokens,
\* every row of parse_rows_from_text has exactly N values, and so has every
\* row after ensure_kostenarten, after deduplication, after
\* insert_section_breaks and after compress_blank_rows; every row of
\* build_output_table has 1 + N cells, as many as there are columns.
C1_HeaderWidth ==
    (script = "EU" /\ header.some) =>
        LET N == Len(header.v)
        IN /\ AllWide(ParsedRows, N)
           /\ AllWide(rows, N)
           /\ AllWide(uniq_rows, N)
           /\ AllWide(insert_section_breaks(uniq_rows, N), N)
           /\ AllWide(final_rows, N)
           /\ pc = "write_csv" =>
                 /\ Len(table.columns) = 1 + N
                 /\ Len(table.rows) = Len(final_rows)
                 /\ \A i \in DOMAIN table.rows : Len(table.rows[i]) = 1 + N

\* a table is built from a line with more tokens than columns, a sentinel
\* row and a blank row
C1_Witness ==
    /\ pc = "write_csv"
    /\ \E i \in DOMAIN page_text :
           Len(NumberMatches(page_text[i])) > Len(header.v)
    /\ \E i \in DOMAIN final_rows : final_rows[i].label = SENTINEL
    /\ Len(table.rows) >= 5

\* --- C2 -----------------------------------------------------------------
\* the distinct normalized month tokens of a piece of text
DistinctMonths(lexemes) ==
    {normalize_month_token(t) : t \in Range(MonthMatches(lexemes))}

\* where a normalized token first appears among the month tokens of a text
FirstAppearance(lexemes, token) ==
    LET months == MonthMatches(lexemes)
    IN CHOOSE i \in DOMAIN months :
          /\ normalize_month_token(months[i]) = token
          /\ \A j \in 1..(i - 1) : normalize_month_token(months[j]) # token

\* h is the rightmost 13 of the distinct tokens of the text, in source order
IsHeaderOf(h, lexemes) ==
    /\ Len(h) = MonthColumns
    /\ \A i \in DOMAIN h : h[i] \in DistinctMonths(lexemes)
    /\ \A i, j \in DOMAIN h :
          i < j => /\ normalize_month_token(h[i]) # normalize_month_token(h[j])
                   /\ FirstAppearance(lexemes, h[i])
                        < FirstAppearance(lexemes, h[j])
    /\ \A t \in DistinctMonths(lexemes) \ Range(h) :
          \A i \in DOMAIN h :
              FirstAppearance(lexemes, t) < FirstAppearance(lexemes, h[i])

\* the anchor lines that yield at least 13 distinct tokens
AnchorLines(text) ==
    {i \in DOMAIN text :
        /\ HasAnchor(text[i])
        /\ Cardinality(DistinctMonths(text[i])) >= MonthColumns}

\* C2: detect_month_header returns "not found" or exactly 13 month tokens,
\* pairwise distinct under normalization, in the order of their first
\* appearance, the rightmost 13 of the de-duplicated tokens of its source
\* (the first anchor line that yields 13, else the whole page text); it
\* returns "not found" exactly when neither an anchor line nor the whole
\* text yields 13 distinct tokens, and never a partial header.
C2_HeaderDetection ==
    pc # "detect" =>
        /\ header.some =>
              IF AnchorLines(page_text) # {}
              THEN IsHeaderOf(header.v,
                      page_text[CHOOSE i \in AnchorLines(page_text) :
                                   \A j \in AnchorLines(page_text) : i <= j])
              ELSE IsHeaderOf(header.v, Concat(page_text))
        /\ ~header.some <=>
              /\ AnchorLines(page_text) = {}
              /\ Cardinality(DistinctMonths(Concat(page_text))) < MonthColumns
        /\ ~header.some => header = None /\ pc = "raised"

\* a header is cut from an anchor line that holds more than 13 distinct
\* tokens and one of them twice
C2_Witness ==
    /\ pc = "parse"
    /\ header.some
    /\ \E i \in AnchorLines(page_text) :
          /\ Cardinality(DistinctMonths(page_text[i])) > MonthColumns
          /\ Len(MonthMatches(page_text[i]))
               > Cardinality(DistinctMonths(page_text[i]))

\* --- C3 -----------------------------------------------------------------
IsTerminal(r) == r.label \in SECTION_BREAK_AFTER
IsCost(r) == r.label \in COST_LABELS
IsSentinel(r) == r.label = SENTINEL

\* the page is a header line and D data lines of at least 13 decimal
\* tokens each, one of them a cost category, none carrying the sentinel
ScenarioA ==
    /\ script = "EU"
    /\ pc = "build"
    /\ Len(page_text) >= 2
    /\ \A i \in 2..Len(page_text) :
          Len(NumberMatches(page_text[i])) >= Len(header.v)
    /\ \E i \in DOMAIN ParsedRows : IsCost(ParsedRows[i])
    /\ \A i \in DOMAIN ParsedRows : ~IsSentinel(ParsedRows[i])

DataLineCount == Len(page_text) - 1
DuplicatesRemoved == Len(rows) - Len(uniq_rows)
LastIsTerminal == uniq_rows # <<>> /\ IsTerminal(uniq_rows[Len(uniq_rows)])

\* C3 as stated: the final table has D + (section-terminal rows) + 1 + 2
\* rows, minus the exact duplicates removed.
C3_RowCount_AsStated ==
    ScenarioA =>
        Len(final_rows) = DataLineCount + Count(uniq_rows, IsTerminal) + 1 + 2
                            - DuplicatesRemoved

\* C3 (amended): the count is as stated when the last row is not
\* section-terminal, and one less when it is: the blank row after a
\* section-terminal last row and the trailing blank row are one row after
\* compress_blank_rows.
C3_RowCount ==
    ScenarioA =>
        Len(final_rows) = DataLineCount + Count(uniq_rows, IsTerminal) + 1 + 2
                            - DuplicatesRemoved
                            - (IF LastIsTerminal THEN 1 ELSE 0)

C3_Witness ==
    /\ ScenarioA
    /\ LastIsTerminal
    /\ DuplicatesRemoved > 0
    /\ Count(uniq_rows, IsTerminal) >= 1

\* --- C4 -----------------------------------------------------------------
\* C4: ensure_kostenarten inserts exactly one sentinel row of N empty
\* values right before the first cost-category row when no row carries the
\* sentinel label and a cost-category row exists; otherwise it returns its
\* input; the sentinel is never duplicated and a second application
\* changes nothing.
C4_SentinelInsertion ==
    (script = "EU" /\ pc = "dedup") =>
        LET input == ParsedRows
            cost == {i \in DOMAIN input : IsCost(input[i])}
        IN /\ IF Count(input, IsSentinel) = 0 /\ cost # {}
              THEN \E k \in cost :
                      /\ \A j \in cost : k <= j
                      /\ Len(rows) = Len(input) + 1
                      /\ \A i \in 1..(k - 1) : rows[i] = input[i]
                      /\ rows[k] = Row(SENTINEL, Blanks(Len(header.v)))
                      /\ \A i \in k..Len(input) : rows[i + 1] = input[i]
                      /\ Count(rows, IsSentinel) = 1
              ELSE rows = input
           /\ Count(input, IsSentinel) > 0 =>
                 Count(rows, IsSentinel) = Count(input, IsSentinel)
           /\ ensure_kostenarten(rows, header.v) = rows

\* a sentinel row is inserted in the middle of the rows
C4_Witness ==
    /\ pc = "dedup"
    /\ Len(rows) = Len(ParsedRows) + 1
    /\ Len(rows) >= 3
    /\ IsSentinel(rows[2])
    /\ IsCost(rows[3])

\* --- C5 -----------------------------------------------------------------
\* C5: build_output_table fails exactly when a structure reference is
\* given whose number of entries differs from the number of rows (blank and
\* sentinel rows counted), the error carries both counts; otherwise the
\* columns are the label column and the header tokens, and there is one
\* cell list per row, the row's label and values, whatever the reference.
C5_StructureCheck ==
    (script = "EU" /\ pc \in {"write_csv", "raised"} /\ header.some) =>
        LET mismatch == /\ structure_numbers.some
                        /\ Len(structure_numbers.v) # Len(final_rows)
        IN /\ (exc.some /\ exc.v.what = "StructuralMismatch") <=> mismatch
           /\ mismatch =>
                 /\ pc = "raised"
                 /\ exc.v.requested = Len(structure_numbers.v)
                 /\ exc.v.actual = Len(final_rows)
                 /\ table = NoTable
           /\ ~mismatch =>
                 /\ pc = "write_csv"
                 /\ table.columns = <<Label("Bezeichnung")>> \o header.v
                 /\ Len(table.rows) = Len(final_rows)
                 /\ \A i \in DOMAIN final_rows :
                       table.rows[i] =
                          <<final_rows[i].label>> \o final_rows[i].values

\* the reference has one entry more than the table, which holds a sentinel
C5_Witness ==
    /\ pc = "raised"
    /\ exc.some
    /\ exc.v.what = "StructuralMismatch"
    /\ exc.v.requested = exc.v.actual + 1
    /\ \E i \in DOMAIN final_rows : IsSentinel(final_rows[i])

\* ------------------------------------------------------------------------
\* Pipeline B: glyphs, columns, amounts
\* A glyph is [text, x0, top]: one character, x0 in page units, top in
\* tenths of a page unit.  A column text is a sequence of characters.
\* ------------------------------------------------------------------------
COLUMN_BOUNDS ==
    << <<"Konto", 0, 90>>, <<"Beschriftung", 90, 320>>,
       <<"EB-Wert", 320, 410>>, <<"Okt 2025 Soll", 410, 500>>,
       <<"Okt 2025 Haben", 500, 580>>, <<"Kum Werte Soll", 580, 660>>,
       <<"Kum Werte Haben", 660, 750>>, <<"Saldo", 750, 900>> >>

ColumnNames == {COLUMN_BOUNDS[i][1] : i \in DOMAIN COLUMN_BOUNDS}

Digits == {"0", "1", "2", "3", "4", "5", "6", "7", "8", "9"}
DigitValue(c) ==
    CASE c = "0" -> 0 [] c = "1" -> 1 [] c = "2" -> 2 [] c = "3" -> 3
      [] c = "4" -> 4 [] c = "5" -> 5 [] c = "6" -> 6 [] c = "7" -> 7
      [] c = "8" -> 8 [] c = "9" -> 9

\* round(top / bucket) * bucket with bucket = 1: half to even
RoundTop(top) ==
    LET q == top \div 10
        r == top % 10
    IN IF r < 5 THEN q
       ELSE IF r > 5 THEN q + 1
       ELSE IF q % 2 = 0 THEN q ELSE q + 1

\* collect_lines: the glyphs of each rounded top, in page order, by top
collect_lines(chars) ==
    LET ys == {RoundTop(chars[i].top) : i \in DOMAIN chars}
        line(y) == SelectSeq(chars, LAMBDA ch : RoundTop(ch.top) = y)
        RECURSIVE Sorted(_)
        Sorted(S) == IF S = {} THEN <<>>
                     ELSE LET y == CHOOSE a \in S : \A b \in S : a <= b
                          IN <<[y |-> y, chars |-> line(y)]>>
                             \o Sorted(S \ {y})
    IN Sorted(ys)

\* sorted(chars, key=x0): stable insertion
RECURSIVE InsertByX0(_, _)
InsertByX0(sorted, ch) ==
    IF sorted = <<>> THEN <<ch>>
    ELSE IF Head(sorted).x0 <= ch.x0
         THEN <<Head(sorted)>> \o InsertByX0(Tail(sorted), ch)
         ELSE <<ch>> \o sorted

RECURSIVE SortByX0(_, _)
SortByX0(sorted, rest) ==
    IF rest = <<>> THEN sorted
    ELSE SortByX0(InsertByX0(sorted, Head(rest)), Tail(rest))

\* str.strip()
RECURSIVE LStrip(_)
LStrip(cs) == IF cs # <<>> /\ IsSpace(Head(cs)) THEN LStrip(Tail(cs)) ELSE cs

RECURSIVE RStrip(_)
RStrip(cs) ==
    IF cs # <<>> /\ IsSpace(cs[Len(cs)])
    THEN RStrip(SubSeq(cs, 1, Len(cs) - 1)) ELSE cs

Strip(cs) == RStrip(LStrip(cs))

slice_columns(chars) ==
    LET sorted == SortByX0(<<>>, chars)
        inside(i) == SelectSeq(sorted, LAMBDA ch :
                        COLUMN_BOUNDS[i][2] <= ch.x0
                        /\ ch.x0 < COLUMN_BOUNDS[i][3])
        text(i) == [j \in 1..Len(inside(i)) |-> inside(i)[j].text]
    IN [name \in ColumnNames |->
          LET i == CHOOSE k \in DOMAIN COLUMN_BOUNDS :
                      COLUMN_BOUNDS[k][1] = name
          IN Strip(text(i))]

\* Numbers.  A float is kept as digits * 10^-frac, without trailing zeros
\* of the fraction, so that equal numbers are equal values.
RECURSIVE Float(_, _)
Float(digits, frac) ==
    IF frac > 0 /\ digits % 10 = 0 THEN Float(digits \div 10, frac - 1)
    ELSE [digits |-> digits, frac |-> frac]

Zero == Float(0, 0)
Times(sign, f) == Float(sign * f.digits, f.frac)

RECURSIVE DigitsToInt(_, _)
DigitsToInt(acc, cs) ==
    IF cs = <<>> THEN acc
    ELSE DigitsToInt(10 * acc + DigitValue(Head(cs)), Tail(cs))

AllDigits(cs) == \A i \in DOMAIN cs : cs[i] \in Digits

\* float(text) for a text of digits, ".", signs and other characters:
\* [sign] digits [. [digits]] or [sign] . digits; anything else is a
\* ValueError
float(cs) ==
    LET signed == cs # <<>> /\ Head(cs) \in {"-", "+"}
        body == IF signed THEN Tail(cs) ELSE cs
        dots == {i \in DOMAIN body : body[i] = "."}
        int == IF dots = {} THEN body
               ELSE SubSeq(body, 1, (CHOOSE i \in dots : TRUE) - 1)
        fraction == IF dots = {} THEN <<>>
                    ELSE SubSeq(body, (CHOOSE i \in dots : TRUE) + 1, Len(body))
        ok == /\ Cardinality(dots) <= 1
              /\ AllDigits(int) /\ AllDigits(fraction)
              /\ Len(int) + Len(fraction) >= 1
    IN IF ~ok THEN [error |-> TRUE, value |-> Zero]
       ELSE [error |-> FALSE,
             value |-> Times(IF signed /\ Head(cs) = "-" THEN -1 ELSE 1,
                             Float(DigitsToInt(0, int \o fraction),
                                   Len(fraction)))]

Remove(cs, c) == SelectSeq(cs, LAMBDA x : x # c)
Replace(cs, c, d) == [i \in DOMAIN cs |-> IF cs[i] = c THEN d ELSE cs[i]]

\* the result of a call: a value, or the exception that leaves it
Value(v) == [exc |-> None, value |-> v]
Throws(e) == [exc |-> Some(e), value |-> Zero]

parse_amount_uncaught(text, signed) ==
    LET cleaned == Remove(text, " ")
        f == float(Replace(Remove(cleaned, "."), ",", "."))
    IN IF f.error
       THEN Throws(Raise("ValueError", "CellParseFailure", 0, 0))
       ELSE Value(f.value)

parse_amount_ignores_signed(text, signed) ==
    LET cleaned == Remove(text, " ")
        suffix == cleaned # <<>> /\ cleaned[Len(cleaned)] \in {"S", "H"}
        sign == IF suffix /\ cleaned[Len(cleaned)] = "H" THEN -1 ELSE 1
        f == float(Replace(Remove(IF suffix
                                  THEN SubSeq(cleaned, 1, Len(cleaned) - 1)
                                  ELSE cleaned, "."), ",", "."))
    IN IF f.error THEN Value(Zero) ELSE Value(Times(sign, f.value))

parse_amount(text, signed) ==
    IF text = <<>> THEN Value(Zero)
    ELSE LET cleaned == Remove(text, " ")
             suffix == cleaned # <<>> /\ cleaned[Len(cleaned)] \in {"S", "H"}
             sign == IF suffix /\ signed /\ cleaned[Len(cleaned)] = "H"
                     THEN -1 ELSE 1
             unsuffixed == IF suffix THEN SubSeq(cleaned, 1, Len(cleaned) - 1)
                           ELSE cleaned
             f == float(Replace(Remove(unsuffixed, "."), ",", "."))
         IN IF f.error THEN Value(Zero)          \* except ValueError
            ELSE Value(Times(sign, f.value))

\* SUSA_HEADER_RE.search(page_text), on the words of the model's vocabulary
SUSA_HEADER_FORMS == {"summen und salden", "summen- und saldenliste"}

PageHasSusaHeader(text) ==
    \E i \in DOMAIN text : \E j \in DOMAIN text[i] :
        /\ text[i][j].k = "word"
        /\ Casefold(text[i][j].s) \in SUSA_HEADER_FORMS

find_susa_page_range(doc) ==
    LET matches == {i \in DOMAIN doc : PageHasSusaHeader(doc[i].text)}
    IN IF matches = {} THEN <<None, None>>
       ELSE <<Some(CHOOSE i \in matches : \A j \in matches : i <= j),
              Some(CHOOSE i \in matches : \A j \in matches : i >= j)>>

konto_re_match_spaced(cs) ==
    \E k \in {3, 4} :
        /\ Len(cs) >= k + 3
        /\ AllDigits(SubSeq(cs, 1, k))
        /\ \A i \in (k + 1)..(Len(cs) - 2) : IsSpace(cs[i])
        /\ AllDigits(SubSeq(cs, Len(cs) - 1, Len(cs)))

\* konto_re = ^\d{3,4}\s*\d{2}$
konto_re_match(cs) ==
    \E k \in {3, 4} :
        /\ Len(cs) >= k + 2
        /\ AllDigits(SubSeq(cs, 1, k))
        /\ \A i \in (k + 1)..(Len(cs) - 2) : IsSpace(cs[i])
        /\ AllDigits(SubSeq(cs, Len(cs) - 1, Len(cs)))

SignedColumns == {"EB-Wert", "Saldo"}
TextColumns == {"Konto", "Beschriftung"}

\* lines 122-137: the row of one glyph line, if its account column matches
line_rows(line_chars) ==
    LET cols == slice_columns(line_chars)
        konto == Strip(cols["Konto"])
        amount(name) == parse_amount(cols[name], name \in SignedColumns)
    IN IF ~konto_re_match(konto) THEN Value(<<>>)
       ELSE IF \E name \in ColumnNames \ TextColumns : amount(name).exc.some
       THEN [exc |-> amount(CHOOSE name \in ColumnNames \ TextColumns :
                                amount(name).exc.some).exc,
             value |-> <<>>]
       ELSE Value(<<[name \in ColumnNames |->
                       IF name = "Konto" THEN konto
                       ELSE IF name = "Beschriftung" THEN cols[name]
                       ELSE amount(name).value]>>)

\* the rows of the pages from..to (1-based, inclusive), or the exception
RECURSIVE RowsOf(_, _)
RowsOf(lines, acc) ==
    IF lines = <<>> THEN Value(acc)
    ELSE LET r == line_rows(Head(lines).chars)
         IN IF r.exc.some THEN r ELSE RowsOf(Tail(lines), acc \o r.value)

PageLines(doc, from, to) ==
    Concat([i \in 1..(to - from + 1) |-> collect_lines(doc[from + i - 1].chars)])

Max(a, b) == IF a >= b THEN a ELSE b
Min(a, b) == IF a <= b THEN a ELSE b

parse_pdf(doc, start_arg, end_arg) ==
    LET total_pages == Len(doc)
        found == find_susa_page_range(doc)
        searched == ~start_arg.some /\ ~end_arg.some
        s0 == IF searched THEN found[1] ELSE start_arg
        e0 == IF searched THEN found[2] ELSE end_arg
        first == IF s0.some THEN s0.v ELSE 1
        last == IF e0.some THEN e0.v ELSE total_pages
        start_idx == Max(first - 1, 0)
        end_idx == Min(last, total_pages)
    IN IF searched /\ ~found[1].some
       THEN Throws(Raise("RuntimeError", "NotFound", 0, total_pages))
       ELSE IF start_idx >= total_pages
       THEN Throws(Raise("ValueError", "OutOfRange", first, total_pages))
       ELSE IF end_idx <= start_idx
       THEN Throws(Raise("ValueError", "OutOfRange", last, first))
       ELSE RowsOf(PageLines(doc, start_idx + 1, end_idx), <<>>)

\* line 212 of convert_batch: rows = parse_pdf(pdf_path, start_page, end_page)
ParsePdf ==
    /\ pc = "parse_pdf"
    /\ LET r == parse_pdf(pdf, start_page, end_page)
       IN IF r.exc.some
          THEN Fail(r.exc.v) /\ UNCHANGED susa_rows
          ELSE susa_rows' = r.value /\ pc' = "susa_write_csv" /\ UNCHANGED exc
    /\ UNCHANGED <<batch_vars, arg_vars, pdf, eu_vars, files>>

\* ------------------------------------------------------------------------
\* Amount texts: every text of up to MaxTextLen characters, and localized
\* amounts with up to MaxGroups groups of thousands, each with a suffix
\* ------------------------------------------------------------------------
MaxTextLen == 3
MaxGroups == 1

AmountChars == {"0", "5", ",", ".", "-", "S", "H", " ", "x"}

RECURSIVE Groups(_)
Groups(n) == IF n = 0 THEN <<>> ELSE <<".", "2", "3", "4">> \o Groups(n - 1)

LocalizedAmounts ==
    {(IF neg THEN <<"-">> ELSE <<>>) \o lead \o Groups(g) \o <<",">> \o fr :
        neg \in BOOLEAN,
        lead \in {<<"1">>, <<"5", "0">>, <<"1", "0", "5">>},
        g \in 0..MaxGroups,
        fr \in {<<"0", "0">>, <<"5", "6">>}}

AmountTexts ==
    {body \o suffix :
        body \in SeqsUpTo(AmountChars, MaxTextLen) \cup LocalizedAmounts,
        suffix \in {<<>>, <<"S">>, <<"H">>}}

\* the glyphs of a text set from x0 on, on the line at top
Glyphs(cs, x0, top) ==
    [i \in 1..Len(cs) |-> [text |-> cs[i], x0 |-> x0 + 6 * (i - 1), top |-> top]]

\* a page whose one line is account 400 00 with text t in the signed
\* column EB-Wert and in the unsigned column Okt 2025 Soll
AmountPage(t) ==
    [text |-> << <<Word("Summen und Salden")>> >>,
     chars |-> Glyphs(<<"4", "0", "0", " ", "0", "0">>, 10, 1000)
               \o Glyphs(t, 320, 1002)
               \o Glyphs(<<"5", ",", "0", "0", "S">>, 750, 998)
               \o Glyphs(t, 410, 1000)]

InitAmount ==
    /\ script = "SUSA"
    /\ pc = "parse_pdf"
    /\ IdleBatch
    /\ IdleArgs
    /\ structure_numbers = None
    /\ \E t \in AmountTexts : pdf = <<AmountPage(t)>>
    /\ FreshLocals

NextAmount == ParsePdf

SpecAmount == InitAmount /\ [][NextAmount]_vars

\* ------------------------------------------------------------------------
\* Properties of parse_amount
\* ------------------------------------------------------------------------
\* the text of a column of the one line of the amount page
CellText(name) == slice_columns(pdf[1].chars)[name]

\* period thousands separators, comma decimal, two decimals, no suffix
WellFormed(cs) ==
    LET u == IF cs # <<>> /\ Head(cs) = "-" THEN Tail(cs) ELSE cs
        n == Len(u) - 3
    IN /\ n >= 1
       /\ u[n + 1] = ","
       /\ u[n + 2] \in Digits /\ u[n + 3] \in Digits
       /\ \E lead \in 1..3 :
             /\ lead <= n
             /\ (n - lead) % 4 = 0
             /\ \A i \in 1..n :
                   IF i > lead /\ (i - lead) % 4 = 1
                   THEN u[i] = "." ELSE u[i] \in Digits

\* the value of a well-formed amount: its digits, in hundredths
AmountValue(cs) ==
    LET digits == SelectSeq(cs, LAMBDA c : c \in Digits)
    IN Float((IF Head(cs) = "-" THEN -1 ELSE 1) * DigitsToInt(0, digits), 2)

Negated(f) == [f EXCEPT !.digits = 0 - f.digits]

EndsWith(cs, c) == cs # <<>> /\ cs[Len(cs)] = c
ButLast(cs) == SubSeq(cs, 1, Len(cs) - 1)

AmountParsed == script = "SUSA" /\ pc = "susa_write_csv" /\ Len(pdf) = 1

\* C9: signed amounts.  For a well-formed amount text t of value v, t + "H"
\* is -v and t + "S" is v in a signed column; in an unsigned column both
\* are v.
C9_SignedAmounts ==
    AmountParsed =>
        LET t == CellText("EB-Wert")
            row == susa_rows[1]
        IN /\ Len(susa_rows) = 1
           /\ (EndsWith(t, "H") /\ WellFormed(ButLast(t))) =>
                 /\ row["EB-Wert"] = Negated(AmountValue(ButLast(t)))
                 /\ row["Okt 2025 Soll"] = AmountValue(ButLast(t))
           /\ (EndsWith(t, "S") /\ WellFormed(ButLast(t))) =>
                 /\ row["EB-Wert"] = AmountValue(ButLast(t))
                 /\ row["Okt 2025 Soll"] = AmountValue(ButLast(t))
           /\ WellFormed(t) =>
                 /\ row["EB-Wert"] = AmountValue(t)
                 /\ row["Okt 2025 Soll"] = AmountValue(t)

\* 1.234,56H is read: -1234.56 signed, 1234.56 unsigned
C9_Witness ==
    /\ AmountParsed
    /\ CellText("EB-Wert") = <<"1", ".", "2", "3", "4", ",", "5", "6", "H">>
    /\ susa_rows[1]["EB-Wert"] = [digits |-> -123456, frac |-> 2]
    /\ susa_rows[1]["Okt 2025 Soll"] = [digits |-> 123456, frac |-> 2]

\* what parse_amount hands to float: no blanks, no trailing S or H, no
\* periods, the comma a point
Cleaned(t) ==
    LET c == Remove(t, " ")
        u == IF EndsWith(c, "S") \/ EndsWith(c, "H") THEN ButLast(c) ELSE c
    IN Replace(Remove(u, "."), ",", ".")

\* a decimal numeral: sign, digits, at most one point, at least one digit
IsNumber(cs) ==
    LET u == IF cs # <<>> /\ Head(cs) \in {"-", "+"} THEN Tail(cs) ELSE cs
    IN /\ \A i \in DOMAIN u : u[i] \in Digits \cup {"."}
       /\ Cardinality({i \in DOMAIN u : u[i] = "."}) <= 1
       /\ \E i \in DOMAIN u : u[i] \in Digits

\* C10: parse_amount never raises; an empty text and a text that is no
\* number after cleaning is 0; parse_pdf is not aborted by such a cell and
\* emits the row with that cell 0.
C10_CellParseFailure ==
    (script = "SUSA" /\ pc # "parse_pdf" /\ Len(pdf) = 1) =>
        /\ pc = "susa_write_csv"
        /\ exc = None
        /\ Len(susa_rows) = 1
        /\ \A name \in {"EB-Wert", "Okt 2025 Soll"} :
              /\ parse_amount(CellText(name), name \in SignedColumns).exc = None
              /\ (CellText(name) = <<>> \/ ~IsNumber(Cleaned(CellText(name))))
                    => susa_rows[1][name] = Zero
        /\ susa_rows[1]["Konto"] = <<"4", "0", "0", " ", "0", "0">>
        /\ susa_rows[1]["Saldo"] = [digits |-> 5, frac |-> 0]

\* a row is emitted whose cell text is not empty and not a number
C10_Witness ==
    /\ AmountParsed
    /\ Len(susa_rows) = 1
    /\ CellText("EB-Wert") = <<"5", ",", "x">>
    /\ susa_rows[1]["EB-Wert"] = Zero

\* ------------------------------------------------------------------------
\* convert_batch of both converters, over documents of a small catalogue
\* ------------------------------------------------------------------------
\* PDF files in the input directory
MaxPdfs == 2
\* page numbers asked for on the command line: 0..MaxPage
MaxPage == 3

U1 == DataLine("Umsatzerlöse", 1, MonthColumns)
R1 == DataLine("Rohertrag", 1, MonthColumns)
P2 == DataLine("Personalkosten", 2, MonthColumns)
G1 == DataLine("Gesamtkosten", 1, MonthColumns)

TitlePage == [text |-> << <<Word("BWA"), Word("Kurzbericht")>> >>,
              chars |-> <<>>]

EuPage(title, header_line, lines) ==
    [text |-> << <<Word(title)>>, header_line >> \o lines, chars |-> <<>>]

EuDocs ==
    { <<TitlePage,
        EuPage("Entwicklungsübersicht", StandardHeaderLine, <<U1, P2>>)>>,
      <<EuPage("ENTWICKLUNGSUEBERSICHT",
               HeaderLine(TRUE, 1, MonthColumns + 1, 2), <<R1, P2, P2, G1>>)>>,
      <<TitlePage>>,
      <<TitlePage,
        EuPage("Entwicklungsübersicht",
               HeaderLine(TRUE, 1, MonthColumns - 1, 1), <<U1>>)>> }

\* a SuSa page: a heading, a line of column titles and account lines
SusaPage(heading, konto, eb, saldo) ==
    [text |-> << <<Word(heading)>> >>,
     chars |-> Glyphs(<<"K", "o", "n", "t", "o">>, 10, 500)
               \o Glyphs(<<"S", "a", "l", "d", "o">>, 750, 500)
               \o Glyphs(eb, 320, 1204)
               \o Glyphs(konto, 10, 1200)
               \o Glyphs(saldo, 750, 1196)
               \o Glyphs(<<"K", "a", "s", "s", "e">>, 90, 1200)
               \o Glyphs(<<"9", ",", "0", "0">>, 750, 2000)]

SusaDocs ==
    { <<SusaPage("Summen und Salden", <<"1", "0", "0", "0", " ", "0", "0">>,
                 <<"5", "0", ",", "0", "0", "H">>, <<"x">>),
        SusaPage("SUMMEN- UND SALDENLISTE", <<"4", "0", "0", "0", "0">>,
                 <<>>, <<"1", ".", "2", "3", "4", ",", "5", "6", "S">>)>>,
      <<SusaPage("Kontoblatt", <<"1", "2", "0", "0", " ", "0", "0">>,
                 <<"5", ",", "0", "0">>, <<"5", ",", "0", "0", "H">>)>> }

Pages == {None} \cup {Some(p) : p \in 0..MaxPage}

InitBatch ==
    /\ script \in {"EU", "SUSA"}
    /\ pc = "batch_start"
    /\ n_pdfs \in 0..MaxPdfs
    /\ index = 0
    /\ existed = {}
    /\ written = <<>>
    /\ skipped = <<>>
    /\ files = {}
    /\ page_number \in (IF script = "EU" THEN Pages ELSE {None})
    /\ start_page \in (IF script = "SUSA" THEN Pages ELSE {None})
    /\ end_page \in (IF script = "SUSA" THEN Pages ELSE {None})
    /\ structure_numbers \in (IF script = "EU" THEN Structures ELSE {None})
    /\ write_excel_file \in BOOLEAN
    /\ pandas \in (IF write_excel_file THEN BOOLEAN ELSE {TRUE})
    /\ pdf = <<>>
    /\ FreshLocals

\* lines 283-285: an input directory without PDF files is an error
BatchStart ==
    /\ pc = "batch_start"
    /\ IF n_pdfs = 0
       THEN /\ exc' = Some(Raise("RuntimeError", "NoPdfFiles", 0, 0))
            /\ pc' = "batch_raised"
       ELSE pc' = "loop" /\ UNCHANGED exc
    /\ UNCHANGED <<batch_vars, arg_vars, pdf, eu_vars, susa_rows, files>>

\* lines 293-296: the next document's outputs exist already
LoopSkipExisting ==
    /\ pc = "loop"
    /\ index < n_pdfs
    /\ \E csv_exists, xlsx_exists \in BOOLEAN :
          /\ csv_exists /\ (~write_excel_file \/ xlsx_exists)
          /\ index' = index + 1
          /\ existed' = existed \cup {index + 1}
    /\ UNCHANGED <<pc, n_pdfs, written, skipped, arg_vars, pdf, eu_vars,
                   susa_rows, exc, files>>

\* lines 293-298: the next document is opened and converted
LoopConvert ==
    /\ pc = "loop"
    /\ index < n_pdfs
    /\ \E csv_exists, xlsx_exists \in BOOLEAN :
          ~(csv_exists /\ (~write_excel_file \/ xlsx_exists))
    /\ index' = index + 1
    /\ pdf' \in (IF script = "EU" THEN EuDocs ELSE SusaDocs)
    /\ pc' = IF script = "EU" THEN "select_page" ELSE "parse_pdf"
    /\ page_text' = <<>>
    /\ header' = None
    /\ rows' = <<>>
    /\ uniq_rows' = <<>>
    /\ final_rows' = <<>>
    /\ table' = NoTable
    /\ susa_rows' = <<>>
    /\ exc' = None
    /\ UNCHANGED <<n_pdfs, existed, written, skipped, arg_vars, files>>

\* line 313: return written, skipped
LoopEnd ==
    /\ pc = "loop"
    /\ index = n_pdfs
    /\ pc' = "batch_returned"
    /\ UNCHANGED <<batch_vars, arg_vars, pdf, eu_vars, susa_rows, exc, files>>

\* line 244: write_csv_table
WriteCsvTable ==
    /\ pc = "write_csv"
    /\ files' = files \cup {<<index, "csv">>}
    /\ pc' = IF write_excel_file THEN "write_excel" ELSE "returned"
    /\ UNCHANGED <<batch_vars, arg_vars, pdf, eu_vars, susa_rows, exc>>

\* lines 245-247: write_excel_table, which needs pandas
WriteExcelTable ==
    /\ pc = "write_excel"
    /\ IF pandas
       THEN /\ files' = files \cup {<<index, "xlsx">>}
            /\ pc' = "returned"
            /\ UNCHANGED exc
       ELSE Fail(Raise("RuntimeError", "NoPandas", 0, 0)) /\ UNCHANGED files
    /\ UNCHANGED <<batch_vars, arg_vars, pdf, eu_vars, susa_rows>>

\* SUSA line 213: write_csv
WriteCsv ==
    /\ pc = "susa_write_csv"
    /\ files' = files \cup {<<index, "csv">>}
    /\ pc' = IF write_excel_file THEN "susa_write_excel" ELSE "returned"
    /\ UNCHANGED <<batch_vars, arg_vars, pdf, eu_vars, susa_rows, exc>>

\* SUSA lines 214-215: write_excel, which needs pandas
WriteExcel ==
    /\ pc = "susa_write_excel"
    /\ IF pandas
       THEN /\ files' = files \cup {<<index, "xlsx">>}
            /\ pc' = "returned"
            /\ UNCHANGED exc
       ELSE Fail(Raise("RuntimeError", "NoPandas", 0, 0)) /\ UNCHANGED files
    /\ UNCHANGED <<batch_vars, arg_vars, pdf, eu_vars, susa_rows>>

\* lines 306-309: the conversion returned
Written ==
    /\ pc = "returned"
    /\ written' = Append(written, index)
    /\ pc' = "loop"
    /\ UNCHANGED <<n_pdfs, index, existed, skipped, arg_vars, pdf, eu_vars,
                   susa_rows, exc, files>>

ExceptPropagates ==
    /\ pc = "raised"
    /\ pc' = "batch_raised"
    /\ UNCHANGED <<batch_vars, arg_vars, pdf, eu_vars, susa_rows, exc, files>>

\* lines 310-312: except Exception: the document is recorded as skipped
Except ==
    /\ pc = "raised"
    /\ skipped' = Append(skipped, [pdf |-> index, reason |-> exc.v])
    /\ pc' = "loop"
    /\ UNCHANGED <<n_pdfs, index, existed, written, arg_vars, pdf, eu_vars,
                   susa_rows, exc, files>>

Next ==
    \/ BatchStart
    \/ LoopSkipExisting
    \/ LoopConvert
    \/ LoopEnd
    \/ SelectPage
    \/ DetectHeader
    \/ ParseRows
    \/ EnsureKostenarten
    \/ Deduplicate
    \/ Annotate
    \/ BuildTable
    \/ WriteCsvTable
    \/ WriteExcelTable
    \/ ParsePdf
    \/ WriteCsv
    \/ WriteExcel
    \/ Written
    \/ Except

Spec == InitBatch /\ [][Next]_vars

\* ------------------------------------------------------------------------
\* Properties of the batch
\* ------------------------------------------------------------------------
FileKinds == {"csv", "xlsx"}
FatalKinds == {"NotFound", "OutOfRange", "StructuralMismatch"}

WroteFor(i) == \E k \in FileKinds : <<i, k>> \in files

\* the page the conversion works on is the one asked for, or the first
\* page that carries the report's title
PageSelected ==
    IF page_number.some
    THEN /\ page_number.v \in 1..Len(pdf)
         /\ page_text = pdf[page_number.v].text
    ELSE /\ \E i \in DOMAIN pdf : PageHasTerm(pdf[i].text)
         /\ page_text = find_entwicklungsuebersicht_page(pdf).page_text

StructureChecked ==
    structure_numbers.some => Len(structure_numbers.v) = Len(final_rows)

\* C6: convert_page_to_csv writes an output file of a document only after
\* the page selection, the detection of the 13 month columns and the check
\* of the structure's row count have succeeded, and a document whose
\* conversion ended in NotFound, OutOfRange or StructuralMismatch has no
\* output file written.
C6_NoPartialOutput ==
    script = "EU" =>
        /\ WroteFor(index) =>
              /\ PageSelected
              /\ header.some /\ Len(header.v) = MonthColumns
              /\ table # NoTable
              /\ StructureChecked
        /\ (pc = "raised" /\ exc.v.what \in FatalKinds) => ~WroteFor(index)
        /\ \A j \in DOMAIN skipped :
              skipped[j].reason.what \in FatalKinds
                  => ~WroteFor(skipped[j].pdf)

\* a document failed the structure check after an earlier one was written
C6_Witness ==
    /\ script = "EU"
    /\ pc = "raised"
    /\ exc.v.what = "StructuralMismatch"
    /\ index = 2
    /\ WroteFor(1)
    /\ ~WroteFor(2)

\* the page range asked for does not lie within the document's pages
InvalidRange ==
    LET P == Len(pdf)
        first == IF start_page.some THEN start_page.v ELSE 1
    IN \/ start_page.some /\ (start_page.v < 1 \/ start_page.v > P)
       \/ end_page.some /\ (end_page.v > P \/ end_page.v < first)

InvalidPage ==
    page_number.some /\ (page_number.v < 1 \/ page_number.v > Len(pdf))

\* C7: a page number (Pipeline A) or a page range (Pipeline B) that is
\* invalid against the document's page count makes the conversion fail
\* with OutOfRange and extract no rows; no other page or range is taken
\* in its place.
C7_OutOfRange ==
    /\ (/\ script = "EU"
        /\ pc \in {"detect", "parse", "ensure", "dedup", "annotate", "build",
                   "write_csv", "write_excel", "returned", "raised"}
        /\ InvalidPage)
          => (pc = "raised" /\ exc.v.what = "OutOfRange" /\ rows = <<>>)
    /\ (/\ script = "SUSA"
        /\ pc \in {"susa_write_csv", "susa_write_excel", "returned", "raised"}
        /\ InvalidRange)
          => (pc = "raised" /\ exc.v.what = "OutOfRange" /\ susa_rows = <<>>)

Attempted == IF pc = "loop" \/ pc = "batch_returned" THEN 1..index
             ELSE 1..(index - 1)

Outcomes(i) ==
    (IF i \in existed THEN 1 ELSE 0)
    + Count(written, LAMBDA w : w = i)
    + Count(skipped, LAMBDA s : s.pdf = i)

\* C8: convert_batch attempts every PDF in order; an error raised while one
\* document is converted is recorded with its reason and the loop goes on;
\* when convert_batch returns, every document is in exactly one of: outputs
\* existed already, written, skipped with a reason.
C8_BatchIsolation ==
    /\ pc = "batch_raised" => (n_pdfs = 0 /\ index = 0)
    /\ pc = "batch_returned" => index = n_pdfs
    /\ \A i \in 1..n_pdfs :
          Outcomes(i) = IF i \in Attempted THEN 1 ELSE 0
    /\ \A j \in 1..(Len(written) - 1) : written[j] < written[j + 1]
    /\ \A j \in 1..(Len(skipped) - 1) : skipped[j].pdf < skipped[j + 1].pdf
    /\ (pc = "loop" /\ exc.some /\ index \notin existed) =>
          /\ skipped # <<>>
          /\ skipped[Len(skipped)] = [pdf |-> index, reason |-> exc.v]

\* the batch returned after the first document failed and the second was
\* written
C8_Witness ==
    /\ pc = "batch_returned"
    /\ n_pdfs = 2
    /\ Len(skipped) = 1 /\ skipped[1].pdf = 1
    /\ written = <<2>>

\* ------------------------------------------------------------------------
\* The row filter of parse_pdf: account texts of every shape
\* ------------------------------------------------------------------------
\* characters of the varied account text
MaxKontoLen == 6

KontoChars == {"1", " ", "x"}

KontoTexts ==
    SeqsUpTo(KontoChars, MaxKontoLen)
    \cup { <<"1", "2", "0", "0", " ", "0", "0">>,
           <<"1", "2", "0", "0", " ", " ", "0", "0">>,
           <<"4", "0", "0", "\t", "0", "0">>,
           <<"1", "2", "0", "0", "0", " ", "0", "0">>,
           <<"1", "2", "0", "0", " ", "0", "0", "0">>,
           <<"S", "u", "m", "m", "e">> }

FilterCells == {<<>>, <<"5", ",", "0", "0", "H">>, <<"x">>}

\* one glyph line: account text, a one-letter description, a balance
FilterLine(konto, tag, saldo, top) ==
    Glyphs(saldo, 750, top + 2) \o Glyphs(konto, 0, top)
    \o Glyphs(<<tag>>, 90, top - 2)

\* two pages; the glyphs of a page come in no order of position
FilterDoc(a, b, cell) ==
    << [text |-> << <<Word("Summen und Salden")>> >>,
        chars |-> FilterLine(a, "c", cell, 300)
                  \o FilterLine(<<"1", "0", "0", "0", " ", "0", "0">>, "b",
                                <<"5", ",", "0", "0">>, 200)
                  \o FilterLine(<<"K", "o", "n", "t", "o">>, "a",
                                <<"S", "a", "l", "d", "o">>, 100)],
       [text |-> << <<Word("Summen und Salden")>> >>,
        chars |-> FilterLine(<<"S", "u", "m", "m", "e">>, "e",
                             <<"5", ",", "0", "0", "S">>, 250)
                  \o FilterLine(b, "d", cell, 150)] >>

InitFilter ==
    /\ script = "SUSA"
    /\ pc = "parse_pdf"
    /\ IdleBatch
    /\ IdleArgs
    /\ structure_numbers = None
    /\ \E a \in KontoTexts, cell \in FilterCells :
       \E b \in {<<"4", "0", "0", " ", "0", "0">>, <<"4", "0", "0", "0", "0">>} :
          pdf = FilterDoc(a, b, cell)
    /\ FreshLocals

NextFilter == ParsePdf

SpecFilter == InitFilter /\ [][NextFilter]_vars

\* the glyph lines of a page: the rounded tops, ascending
LineTops(page) == {RoundTop(page.chars[i].top) : i \in DOMAIN page.chars}

\* the text of the glyphs of line y left of x, as set (a column of the
\* family is laid out from left to right)
TextOf(page, y, from, to) ==
    LET gs == SelectSeq(page.chars, LAMBDA ch :
                  RoundTop(ch.top) = y /\ from <= ch.x0 /\ ch.x0 < to)
    IN Strip([i \in 1..Len(gs) |-> gs[i].text])

AccountText(page, y) == TextOf(page, y, 0, 90)

\* d digits, at least min_gap white-space characters, two digits
AccountShape(cs, min_gap) ==
    \E d \in {3, 4} : \E gap \in min_gap..Len(cs) :
        /\ Len(cs) = d + gap + 2
        /\ \A i \in 1..Len(cs) :
              IF i > d /\ i <= d + gap THEN IsSpace(cs[i])
              ELSE cs[i] \in Digits

\* <<account, description>> of the qualifying lines of the pages, in page
\* order and by ascending top
RECURSIVE QualifyingOfPage(_, _, _)
QualifyingOfPage(page, tops, min_gap) ==
    IF tops = {} THEN <<>>
    ELSE LET y == CHOOSE a \in tops : \A b \in tops : a <= b
             here == IF AccountShape(AccountText(page, y), min_gap)
                     THEN << <<AccountText(page, y),
                               TextOf(page, y, 90, 320)>> >>
                     ELSE <<>>
         IN here \o QualifyingOfPage(page, tops \ {y}, min_gap)

Qualifying(min_gap) ==
    Concat([p \in DOMAIN pdf |->
               QualifyingOfPage(pdf[p], LineTops(pdf[p]), min_gap)])

Emitted ==
    [i \in DOMAIN susa_rows |->
        <<susa_rows[i]["Konto"], susa_rows[i]["Beschriftung"]>>]

\* C11 as stated: the rows are exactly the lines whose account text is 3 to
\* 4 digits, white space, 2 digits.
C11_RowFilter_AsStated ==
    (script = "SUSA" /\ pc = "susa_write_csv") => Emitted = Qualifying(1)

\* C11 (amended): parse_pdf emits a row for a glyph line exactly when the
\* trimmed text of its account column is 3 to 4 digits, then white space
\* or none, then 2 digits, whatever its amount columns hold; the rows are
\* the qualifying lines in page order and by ascending top.
C11_RowFilter ==
    (script = "SUSA" /\ pc = "susa_write_csv") => Emitted = Qualifying(0)

\* a malformed balance on a qualifying line with no white space in its
\* account text, on a page of lines that do not qualify
C11_Witness ==
    /\ script = "SUSA"
    /\ pc = "susa_write_csv"
    /\ AccountText(pdf[1], 30) = <<"1", "1", "1", "1", "1">>
    /\ TextOf(pdf[1], 30, 750, 900) = <<"x">>
    /\ Len(susa_rows) = 3
    /\ Len(Qualifying(0)) > Len(Qualifying(1))

\* ------------------------------------------------------------------------
\* compress_blank_rows on row sequences of every kind, applied twice
\* ------------------------------------------------------------------------
\* rows of a sequence handed to compress_blank_rows
MaxRows == 4

\* blank rows of three widths, a row of values without a label, a label
\* without values, the sentinel row, a section-terminal data row
RowKinds ==
    { Row(<<>>, Blanks(2)),
      Row(<<>>, Blanks(1)),
      Row(<<>>, <<>>),
      Row(<<>>, <<"", "1,00">>),
      Row(Label("Rohertrag"), <<"1,00", "">>),
      Row(SENTINEL, Blanks(2)) }

RowSequences == SeqsUpTo(RowKinds, MaxRows)

InitCompress ==
    /\ script = "EU"
    /\ pc = "compress"
    /\ IdleBatch
    /\ IdleArgs
    /\ structure_numbers = None
    /\ pdf = <<>>
    /\ page_text = <<>>
    /\ header = None
    /\ rows \in RowSequences
    /\ uniq_rows = <<>>
    /\ final_rows = <<>>
    /\ table = NoTable
    /\ susa_rows = <<>>
    /\ exc = None

\* cleaned = compress_blank_rows(rows), kept in uniq_rows
CompressOnce ==
    /\ pc = "compress"
    /\ uniq_rows' = compress_blank_rows(rows)
    /\ pc' = "compressed"
    /\ UNCHANGED <<batch_vars, arg_vars, pdf, page_text, header, rows,
                   final_rows, table, susa_rows, exc, files>>

\* compress_blank_rows(cleaned), kept in final_rows
CompressAgain ==
    /\ pc = "compressed"
    /\ final_rows' = compress_blank_rows(uniq_rows)
    /\ pc' = "compressed_twice"
    /\ UNCHANGED <<batch_vars, arg_vars, pdf, page_text, header, rows,
                   uniq_rows, table, susa_rows, exc, files>>

NextCompress == CompressOnce \/ CompressAgain

SpecCompress == InitCompress /\ [][NextCompress]_vars

\* an empty label and no value other than the empty text
BlankRow(r) == r.label = <<>> /\ ~ \E i \in DOMAIN r.values : r.values[i] # ""

NoBlankRun(rs) ==
    \A i \in 1..(Len(rs) - 1) : ~(BlankRow(rs[i]) /\ BlankRow(rs[i + 1]))

\* C12: compress_blank_rows applied to its own result returns that result,
\* and its result holds no two consecutive blank rows.
C12_CompressIdempotent ==
    /\ pc \in {"compressed", "compressed_twice"} => NoBlankRun(uniq_rows)
    /\ pc = "compressed_twice" => final_rows = uniq_rows

\* a sequence with a run of blank rows of different widths between two
\* rows that are not blank, compressed twice
C12_Witness ==
    /\ pc = "compressed_twice"
    /\ Len(rows) = 4
    /\ ~BlankRow(rows[1]) /\ BlankRow(rows[2]) /\ BlankRow(rows[3])
    /\ rows[2] # rows[3]
    /\ ~BlankRow(rows[4])
    /\ Len(uniq_rows) = 3

\* ------------------------------------------------------------------------
\* The split of a line into label and values
\* ------------------------------------------------------------------------
\* the places of the decimal tokens of a line, ascending
NumberPlaces(line) ==
    LET places == {i \in DOMAIN line : line[i].k = "num"}
        RECURSIVE Ascending(_)
        Ascending(S) == IF S = {} THEN <<>>
                        ELSE LET i == CHOOSE a \in S : \A b \in S : a <= b
                             IN <<i>> \o Ascending(S \ {i})
    IN Ascending(places)

\* the row of a line split at the place of the first retained token
SplitAtPlace(line, n) ==
    LET places == NumberPlaces(line)
        k == Len(places)
    IN IF line = <<>> THEN <<>>
       ELSE IF line = SENTINEL THEN <<Row(line, Blanks(n))>>
       ELSE IF k < n THEN <<>>
       ELSE LET first == places[k - n + 1]
            IN <<Row(SubSeq(line, 1, first - 1),
                     [i \in 1..n |-> line[places[k - n + i]].s])>>

\* C13: a line with k >= N decimal tokens gives one row whose values are
\* the last N tokens and whose label is the text before the place of the
\* first retained token, the k - N leading tokens included whatever their
\* text; a line with fewer than N tokens gives no row.
C13_TrailingAligned ==
    (script = "EU" /\ pc = "ensure" /\ header.some) =>
        rows = Concat([i \in 1..Len(page_text) |->
                          SplitAtPlace(page_text[i], Len(header.v))])

\* ------------------------------------------------------------------------
\* Section breaks of the final table
\* ------------------------------------------------------------------------
\* row i of rs is followed by one blank row and no second one
OneBlankAfter(rs, i) ==
    /\ i < Len(rs)
    /\ BlankRow(rs[i + 1])
    /\ i + 2 <= Len(rs) => ~BlankRow(rs[i + 2])

Annotated == script = "EU" /\ pc \in {"build", "write_csv", "raised"}

\* C14: in compress_blank_rows(insert_section_breaks(uniq_rows)) every row
\* with a section-terminal label is there and is followed by exactly one
\* blank row, also when it is the last row or when the next row is
\* section-terminal too.
C14_SectionBreaks ==
    Annotated =>
        /\ Count(final_rows, IsTerminal) = Count(uniq_rows, IsTerminal)
        /\ \A i \in DOMAIN final_rows :
              IsTerminal(final_rows[i]) => OneBlankAfter(final_rows, i)

\* two section-terminal rows one after the other, the second the last row
C14_Witness ==
    /\ Annotated
    /\ Len(uniq_rows) >= 3
    /\ IsTerminal(uniq_rows[Len(uniq_rows)])
    /\ IsTerminal(uniq_rows[Len(uniq_rows) - 1])
    /\ \E i \in DOMAIN final_rows : IsTerminal(final_rows[i])

=============================================================================
